---- MODULE Spec2Model ----
(***************************************************************************)
(* The nailgun command runner (process_execution/src/nailgun/mod.rs): a    *)
(* number of run() calls in flight on one CommandRunner, the capacity-one  *)
(* semaphore that gates NailgunPool.connect, the pool of resident server   *)
(* processes and the server processes themselves.                          *)
(*                                                                         *)
(* mod.rs is translated from its source.  NailgunPool (nailgun_pool.rs),   *)
(* the splitter (parsed_jvm_command_lines.rs) and the AsyncSemaphore are   *)
(* not among the source files; they are modelled from sections 4.1, 4.3    *)
(* and 5 of the specification.  The local executor, the content store and  *)
(* the operating system (process exit, port binding) are the environment.  *)
(***************************************************************************)
EXTENDS Integers, Sequences, FiniteSets, TLC

\* ---------------------------------------------------------------- bounds

\* Number of run() calls issued on the CommandRunner.
NumCalls == 2

\* Number of TCP ports the operating system can hand to a server.
NumPorts == 2

\* The number of Tasks methods called in a row.
MaxCalls == 5

Calls == 1..NumCalls
Pids == 1..NumCalls
Ports == 1..NumPorts

\* ------------------------------------------------------------- constants

NAILGUN_MAIN_CLASS == "com.martiansoftware.nailgun.NGServer"
ARGS_TO_START_NAILGUN == <<":0">>
NAILGUN_PORT_ENV_VAR_FOR_CLIENT == "NAILGUN_PORT"
NG_CLIENT_PATH == "bin/ng/1.0.0/ng"

\* The semaphore as it would be if built with two permits.
SemaphorePermits_two == 1 + 1

\* AsyncSemaphore::new(1) in CommandRunner::new.
SemaphorePermits == 1

\* CommandRunner.metadata and CommandRunner.python_distribution_absolute_path.
Metadata == "metadata"
PythonDistribution == "/dist/python"

\* -------------------------------------------------------------- requests

\* Option<PathBuf>: the empty sequence is None, a one-element sequence Some.
None == <<>>
Some(x) == <<x>>

\* Tokens that start with "-".
FlagTokens == {"-Xmx512m", "-cp", "-classpath", "--flag"}
ClasspathFlags == {"-cp", "-classpath"}

IsFlag(tok) == tok \in FlagTokens

\* The argv values the requests are drawn from: one main class with two
\* classpaths, the same server command line with other client arguments, a
\* second main class, and a command line the splitter rejects (it has no
\* classpath).
ArgvA == <<"-cp", "a.jar", "Main1", "x">>
GoodArgvs ==
  { ArgvA,
    <<"-cp", "a.jar", "Main1", "--flag", "y">>,
    <<"-cp", "b.jar", "Main1", "x">>,
    <<"-cp", "a.jar", "-Xmx512m", "Main2">> }
BadArgv == <<"Main1", "x">>
Argvs == GoodArgvs \cup {BadArgv}

EmptyEnv == [k \in {} |-> ""]

\* ExecuteProcessRequest.
MakeRequest(argv, jdk_home, is_nailgunnable) ==
  [ argv |-> argv,
    env |-> EmptyEnv,
    input_files |-> "digest_in",
    output_files |-> {"out.txt"},
    output_directories |-> {},
    timeout |-> 60,
    description |-> <<"compile">>,
    unsafe_local_only_files |-> "EMPTY_DIGEST",
    jdk_home |-> jdk_home,
    target_platform |-> "linux",
    is_nailgunnable |-> is_nailgunnable ]

\* The requests run() is called with: the nailgunnable requests over
\* GoodArgvs with a jdk_home, two nailgunnable requests without one (one the
\* splitter accepts, one it rejects), and a request that is not nailgunnable
\* (which the splitter would reject and which has no jdk_home).
Requests ==
  { MakeRequest(a, Some("/jdk8"), TRUE) : a \in GoodArgvs }
    \cup { MakeRequest(ArgvA, None, TRUE),
           MakeRequest(BadArgv, None, TRUE),
           MakeRequest(BadArgv, None, FALSE) }

NoRequest == MakeRequest(<<>>, None, FALSE)

\* Request r with other values in every field the server request is not
\* built from: an env that already binds NAILGUN_PORT, other input files,
\* outputs, timeout and description.
OtherFrame(r) ==
  [r EXCEPT !.env = [k \in {"LANG", "NAILGUN_PORT"} |->
                       IF k = "LANG" THEN "C" ELSE "9"],
            !.input_files = "digest_in2",
            !.output_files = {"a.class"},
            !.output_directories = {"classes"},
            !.timeout = 5,
            !.description = <<"test">>,
            !.unsafe_local_only_files = "digest_unsafe"]

\* Requests with the server command line of ArgvA that differ from
\* MakeRequest(ArgvA, Some("/jdk8"), TRUE) in the frame, in the jdk_home or
\* in the target platform.
VariedRequests ==
  { OtherFrame(MakeRequest(ArgvA, Some("/jdk8"), TRUE)),
    MakeRequest(ArgvA, Some("/jdk11"), TRUE),
    [MakeRequest(ArgvA, Some("/jdk8"), TRUE) EXCEPT !.target_platform = "darwin"] }

\* Result<T, String>: val is a sequence of strings (the pieces of a message
\* that format! concatenates, or the value).
Ok(v) == [ok |-> TRUE, val |-> v]
Err(e) == [ok |-> FALSE, val |-> e]
NoResult == Err(<<>>)

\* What the local executor can answer for a request.
InnerResults == { Ok(<<"exit 0">>), Err(<<"executor failed">>) }

\* ---------------------------------------------------------------- splitter

\* Index of the first token at or after i that is not a flag (Len+1 if none).
RECURSIVE SkipFlags(_, _)
SkipFlags(argv, i) ==
  IF i > Len(argv) THEN i
  ELSE IF IsFlag(argv[i]) /\ argv[i] \notin ClasspathFlags
       THEN SkipFlags(argv, i + 1)
       ELSE i

\* Result<ParsedJVMCommandLines, String>: ok tells which; a failed parse has
\* err and empty fields.
ParseError(e) ==
  [ ok |-> FALSE, err |-> e, nailgun_args |-> <<>>, client_args |-> <<>>,
    client_main_class |-> "" ]

\* ParsedJVMCommandLines::parse_command_lines: JVM flags, the classpath flag
\* and its value, more JVM flags, the main class, then the client's args.
parse_command_lines(argv) ==
  LET cp == SkipFlags(argv, 1)
  IN IF cp > Len(argv) \/ argv[cp] \notin ClasspathFlags
     THEN ParseError(<<"No classpath flag found.">>)
     ELSE IF cp + 1 > Len(argv)
     THEN ParseError(<<"No classpath value found!">>)
     ELSE LET mc == SkipFlags(argv, cp + 2)
          IN IF mc > Len(argv) \/ IsFlag(argv[mc])
             THEN ParseError(<<"No main class provided.">>)
             ELSE [ ok |-> TRUE, err |-> <<>>,
                    nailgun_args |-> SubSeq(argv, 1, mc - 1),
                    client_args |-> SubSeq(argv, mc + 1, Len(argv)),
                    client_main_class |-> argv[mc] ]

\* ------------------------------------------------------ request translator

construct_nailgun_server_request(nailgun_name, args_for_the_jvm, jdk, platform) ==
  [ argv |-> (args_for_the_jvm \o <<NAILGUN_MAIN_CLASS>>) \o ARGS_TO_START_NAILGUN,
    env |-> EmptyEnv,
    input_files |-> "EMPTY_DIGEST",
    output_files |-> {},
    output_directories |-> {},
    timeout |-> 1000,
    description |-> <<"Start a nailgun server for ", nailgun_name>>,
    unsafe_local_only_files |-> "EMPTY_DIGEST",
    jdk_home |-> Some(jdk),
    target_platform |-> platform,
    is_nailgunnable |-> TRUE ]

\* The insertion as it would be if it kept a binding k already has.
MapInsert_keep(m, k, v) ==
  [x \in (DOMAIN m) \cup {k} |-> IF x \in DOMAIN m THEN m[x] ELSE v]

\* BTreeMap::insert: binds k to v, replacing a binding k already has.
MapInsert(m, k, v) ==
  [x \in (DOMAIN m) \cup {k} |-> IF x = k THEN v ELSE m[x]]

\* The client request as it would be if it took its input files and its
\* timeout the way the server request does.
construct_nailgun_client_request_server_frame(original_req, python_distribution, client_main_class, client_args, nailgun_port) ==
  [ argv |-> <<python_distribution, NG_CLIENT_PATH, "--", client_main_class>>
               \o client_args,
    input_files |-> "EMPTY_DIGEST",
    description |-> original_req.description,
    env |-> MapInsert(original_req.env, NAILGUN_PORT_ENV_VAR_FOR_CLIENT,
                      ToString(nailgun_port)),
    output_files |-> original_req.output_files,
    output_directories |-> original_req.output_directories,
    timeout |-> 1000,
    unsafe_local_only_files |-> original_req.unsafe_local_only_files,
    jdk_home |-> None,
    target_platform |-> original_req.target_platform,
    is_nailgunnable |-> original_req.is_nailgunnable ]

construct_nailgun_client_request(original_req, python_distribution, client_main_class, client_args, nailgun_port) ==
  [ argv |-> <<python_distribution, NG_CLIENT_PATH, "--", client_main_class>>
               \o client_args,
    input_files |-> original_req.input_files,
    description |-> original_req.description,
    env |-> MapInsert(original_req.env, NAILGUN_PORT_ENV_VAR_FOR_CLIENT,
                      ToString(nailgun_port)),
    output_files |-> original_req.output_files,
    output_directories |-> original_req.output_directories,
    timeout |-> original_req.timeout,
    unsafe_local_only_files |-> original_req.unsafe_local_only_files,
    jdk_home |-> None,
    target_platform |-> original_req.target_platform,
    is_nailgunnable |-> original_req.is_nailgunnable ]

calculate_nailgun_name(main_class) == <<"nailgun_server_", main_class>>

\* crate::digest(request, metadata): a content hash, taken to be free of
\* collisions: the digest is the pair it was computed from.
digest(request, metadata) == <<request, metadata>>

\* The main class of a request the splitter accepts.
MainClassOf(r) == parse_command_lines(r.argv).client_main_class

NameOf(r) == calculate_nailgun_name(MainClassOf(r))

\* The server request run() builds for request r.
nailgun_req_of(r) ==
  construct_nailgun_server_request(
    NameOf(r), parse_command_lines(r.argv).nailgun_args,
    r.jdk_home[1], r.target_platform)

\* The fingerprint as it would be if taken of the logical name alone.
nailgun_req_digest_of_name(r) == digest(NameOf(r), Metadata)

\* The fingerprint as it would be if taken of the original request.
nailgun_req_digest_of_original(r) == digest(r, Metadata)

\* crate::digest(MultiPlatformExecuteProcessRequest::from(nailgun_req), &metadata)
nailgun_req_digest(r) == digest(nailgun_req_of(r), Metadata)

\* The logical names a request of Requests can map to.
Names ==
  { calculate_nailgun_name(parse_command_lines(a).client_main_class) :
      a \in { b \in Argvs : parse_command_lines(b).ok } }

\* ------------------------------------------------------------------ state

VARIABLES
  pc,            \* where each run() call is
  req,           \* the request each call was given
  log,           \* the steps each call has performed, in order
  result,        \* what each finished call returned
  ng_name,       \* the logical name the call computed
  fingerprint,   \* the server-request digest the call computed
  innerArg,      \* the request the call handed to the local executor
  innerOut,      \* what the local executor answered to the call
  seen,          \* what the call's connect in progress found at lookup
  ret,           \* the port connect returned to the call, and whose it is
  connErr,       \* the error the call's connect returned (<<>>: none)
  newPid,        \* the process the call's connect spawned (0: none)
  spawnedBy,     \* the processes each call's connect spawned, in order
  terminatedBy,  \* the processes each call's connect terminated, in order
  termKind,      \* why the pool terminated each process ("none": it has not)
  permits,       \* AsyncSemaphore: the permits available
  pool,          \* NailgunPool: logical name -> PoolEntry
  procs,         \* the server processes: state, name, port
  nextPid,       \* the next process id
  workdirs,      \* the per-name working directories that exist on disk
  cancelled,     \* the calls whose caller has dropped run()'s future
  preparing,     \* Tasks.preparing: Option<Task>
  tasks,         \* Tasks.tasks: product -> the tasks registered for it
  intrinsics,    \* Tasks.intrinsics: (subject type, product) -> tasks
  singletons,    \* Tasks.singletons: product -> tasks
  failure,       \* the message of the panic that ended the calls (<<>>: none)
  calls          \* the Tasks methods called so far, in order

\* The state of the Tasks registry.
tvars == <<preparing, tasks, intrinsics, singletons, failure, calls>>

vars == <<pc, req, log, result, ng_name, fingerprint, innerArg, innerOut,
          seen, ret, connErr, newPid, spawnedBy, terminatedBy, termKind,
          permits, pool, procs, nextPid, workdirs, cancelled, tvars>>

\* The state of the command runner, its pool and the server processes.
nvars == <<pc, req, log, result, ng_name, fingerprint, innerArg, innerOut,
           seen, ret, connErr, newPid, spawnedBy, terminatedBy, termKind,
           permits, pool, procs, nextPid, workdirs, cancelled>>

\* The empty HashMap.
EmptyMap == [k \in {} |-> <<>>]

NoName == <<>>
NoDigest == <<>>
NoEntry == [fingerprint |-> NoDigest, pid |-> 0, port |-> 0]
NoProc == [state |-> "none", name |-> NoName, port |-> 0]
NoSeen == [pid |-> 0, alive |-> FALSE, match |-> FALSE]
NoRet == [port |-> 0, pid |-> 0]

\* A process that has been spawned and has not exited.
Alive(p) == procs[p].state \in {"starting", "ready"}

\* The ports bound by a live server.
BoundPorts == { procs[p].port : p \in { q \in Pids : procs[q].state = "ready" } }

\* The processes the pool terminated while they were alive because a connect
\* asked for another fingerprint under their name.
Replaced == { p \in Pids : termKind[p] = "stale" }

\* The calls whose connect is in progress.
ConnectPcs == {"connect_lookup", "materialize", "terminate_old", "spawn",
               "await_ready"}
Connecting == { c \in Calls : pc[c] \in ConnectPcs }

Init ==
  /\ pc = [c \in Calls |-> "idle"]
  /\ req = [c \in Calls |-> NoRequest]
  /\ log = [c \in Calls |-> <<>>]
  /\ result = [c \in Calls |-> NoResult]
  /\ ng_name = [c \in Calls |-> NoName]
  /\ fingerprint = [c \in Calls |-> NoDigest]
  /\ innerArg = [c \in Calls |-> NoRequest]
  /\ innerOut = [c \in Calls |-> NoResult]
  /\ seen = [c \in Calls |-> NoSeen]
  /\ ret = [c \in Calls |-> NoRet]
  /\ connErr = [c \in Calls |-> <<>>]
  /\ newPid = [c \in Calls |-> 0]
  /\ spawnedBy = [c \in Calls |-> <<>>]
  /\ terminatedBy = [c \in Calls |-> <<>>]
  /\ termKind = [p \in Pids |-> "none"]
  /\ permits = SemaphorePermits
  /\ pool = [n \in Names |-> NoEntry]
  /\ procs = [p \in Pids |-> NoProc]
  /\ nextPid = 1
  /\ workdirs = {}
  /\ cancelled = {}
  /\ preparing = None
  /\ tasks = EmptyMap
  /\ intrinsics = EmptyMap
  /\ singletons = EmptyMap
  /\ failure = <<>>
  /\ calls = <<>>

\* ------------------------------------------------------- CommandRunner::run

JDK_HOME_ERROR == <<"JDK home must be specified for all nailgunnable requests.">>
WORKDIR_ERROR == <<"Error creating the nailgun workdir! ", "io error">>

\* run() as it would be without the is_nailgunnable test of line 197.
run_sync_no_flag_test(r, workdir_ok) ==
  LET parsed == parse_command_lines(r.argv)
  IN IF ~parsed.ok
     THEN [steps |-> <<"split">>, end |-> "error", err |-> parsed.err]
     ELSE IF r.jdk_home = None
     THEN [steps |-> <<"split", "jdk_check">>, end |-> "error",
           err |-> JDK_HOME_ERROR]
     ELSE IF ~workdir_ok
     THEN [steps |-> <<"split", "jdk_check", "fingerprint", "workdir">>,
           end |-> "error", err |-> WORKDIR_ERROR]
     ELSE [steps |-> <<"split", "jdk_check", "fingerprint", "workdir">>,
           end |-> "acquire", err |-> <<>>]

\* run() as it would be with the jdk_home check ahead of the splitter.
run_sync_jdk_before_split(r, workdir_ok) ==
  LET parsed == parse_command_lines(r.argv)
  IN IF ~r.is_nailgunnable
     THEN [steps |-> <<"inner">>, end |-> "passthrough", err |-> <<>>]
     ELSE IF r.jdk_home = None
     THEN [steps |-> <<"jdk_check">>, end |-> "error", err |-> JDK_HOME_ERROR]
     ELSE IF ~parsed.ok
     THEN [steps |-> <<"jdk_check", "split">>, end |-> "error",
           err |-> parsed.err]
     ELSE IF ~workdir_ok
     THEN [steps |-> <<"jdk_check", "split", "fingerprint", "workdir">>,
           end |-> "error", err |-> WORKDIR_ERROR]
     ELSE [steps |-> <<"jdk_check", "split", "fingerprint", "workdir">>,
           end |-> "acquire", err |-> <<>>]

\* run() as it would be with the jdk_home check after the workdir step.
run_sync_jdk_after_workdir(r, workdir_ok) ==
  LET parsed == parse_command_lines(r.argv)
  IN IF ~r.is_nailgunnable
     THEN [steps |-> <<"inner">>, end |-> "passthrough", err |-> <<>>]
     ELSE IF ~parsed.ok
     THEN [steps |-> <<"split">>, end |-> "error", err |-> parsed.err]
     ELSE IF ~workdir_ok
     THEN [steps |-> <<"split", "workdir">>, end |-> "error",
           err |-> WORKDIR_ERROR]
     ELSE IF r.jdk_home = None
     THEN [steps |-> <<"split", "workdir", "jdk_check">>, end |-> "error",
           err |-> JDK_HOME_ERROR]
     ELSE [steps |-> <<"split", "workdir", "jdk_check", "fingerprint">>,
           end |-> "acquire", err |-> <<>>]

\* What the synchronous part of run() comes to for request r: the steps it
\* performs, in order, and how it ends: "passthrough" (the request goes to
\* the local executor as it is), "error" (run() returns err) or "acquire"
\* (run() goes on to the semaphore).  workdir_ok tells whether
\* get_nailgun_workdir succeeds when it is reached: it does when the
\* directory exists, and otherwise when the directory can be created.
run_sync(r, workdir_ok) ==
  LET parsed == parse_command_lines(r.argv)
  IN IF ~r.is_nailgunnable
     THEN [steps |-> <<"inner">>, end |-> "passthrough", err |-> <<>>]
     ELSE IF ~parsed.ok
     THEN [steps |-> <<"split">>, end |-> "error", err |-> parsed.err]
     ELSE IF r.jdk_home = None
     THEN [steps |-> <<"split", "jdk_check">>, end |-> "error",
           err |-> JDK_HOME_ERROR]
     ELSE IF ~workdir_ok
     THEN [steps |-> <<"split", "jdk_check", "fingerprint", "workdir">>,
           end |-> "error", err |-> WORKDIR_ERROR]
     ELSE [steps |-> <<"split", "jdk_check", "fingerprint", "workdir">>,
           end |-> "acquire", err |-> <<>>]

\* The elements of a sequence.
Range(s) == { s[i] : i \in DOMAIN s }

\* run(), from its entry to the future it returns (the code before
\* with_acquired runs synchronously inside the call).  The calls are
\* numbered in the order they are issued.  The workdir is the one shared
\* thing this part touches: a directory that exists is reused; one that
\* does not is created, which can fail.
Run(c, r) ==
  /\ pc[c] = "idle"
  /\ \A d \in Calls : d < c => pc[d] # "idle"
  /\ LET parsed == parse_command_lines(r.argv)
         name == calculate_nailgun_name(parsed.client_main_class)
     IN \E created \in BOOLEAN :
          LET s == run_sync(r, name \in workdirs \/ created)
              reached == "workdir" \in Range(s.steps)
          IN /\ created => (reached /\ name \notin workdirs)
             /\ req' = [req EXCEPT ![c] = r]
             /\ log' = [log EXCEPT ![c] = s.steps]
             /\ workdirs' = IF created THEN workdirs \cup {name} ELSE workdirs
             /\ ng_name' = [ng_name EXCEPT ![c] =
                  IF "split" \in Range(s.steps) /\ parsed.ok THEN name ELSE @]
             /\ fingerprint' = [fingerprint EXCEPT ![c] =
                  IF "fingerprint" \in Range(s.steps)
                  THEN nailgun_req_digest(r) ELSE @]
             /\ innerArg' = [innerArg EXCEPT ![c] =
                  IF s.end = "passthrough" THEN r ELSE @]
             /\ result' = [result EXCEPT ![c] =
                  IF s.end = "error" THEN Err(s.err) ELSE @]
             /\ pc' = [pc EXCEPT ![c] =
                  CASE s.end = "passthrough" -> "inner_passthrough"
                    [] s.end = "error" -> "done"
                    [] s.end = "acquire" -> "acquire"]
  /\ UNCHANGED <<innerOut, seen, ret, connErr, newPid, spawnedBy,
                 terminatedBy, termKind, permits, pool, procs, nextPid>>
  /\ UNCHANGED <<cancelled, tvars>>

\* async_semaphore.with_acquired: takes a permit when one is available and
\* then calls the closure, which calls nailgun_pool.connect.
Acquire(c) ==
  /\ pc[c] = "acquire"
  /\ permits > 0
  /\ permits' = permits - 1
  /\ log' = [log EXCEPT ![c] = (@ \o <<"acquire", "connect">>)]
  /\ pc' = [pc EXCEPT ![c] = "connect_lookup"]
  /\ UNCHANGED <<req, result, ng_name, fingerprint, innerArg, innerOut,
                 seen, ret, connErr, newPid, spawnedBy, terminatedBy, termKind,
                 pool, procs, nextPid, workdirs>>
  /\ UNCHANGED <<cancelled, tvars>>

CONNECT_ERROR_PREFIX == "Failed to connect to nailgun! "

\* The mapping as it would be if it dropped connect's own error.
map_connect_err_drop(e) == <<CONNECT_ERROR_PREFIX>>
\* .map_err(|e| format!("Failed to connect to nailgun! {}", e))
map_connect_err(e) == <<CONNECT_ERROR_PREFIX>> \o e

\* The resolution as it would be if the permit were kept while the client
\* runs.
ConnectSucceeds_hold_permit(c, pid, port) ==
  /\ ret' = [ret EXCEPT ![c] = [port |-> port, pid |-> pid]]
  /\ seen' = [seen EXCEPT ![c] = NoSeen]
  /\ permits' = permits
  /\ LET parsed == parse_command_lines(req[c].argv)
     IN innerArg' = [innerArg EXCEPT ![c] =
          construct_nailgun_client_request(
            req[c], PythonDistribution, parsed.client_main_class,
            parsed.client_args, port)]
  /\ log' = [log EXCEPT ![c] = (@ \o <<"client_build", "inner">>)]
  /\ pc' = [pc EXCEPT ![c] = "inner_client"]
  /\ UNCHANGED <<result, connErr>>

\* The connect of a caller that was dropped has resolved: the permit is
\* dropped and nobody is there to take the outcome.
ConnectAbandoned(c) ==
  /\ seen' = [seen EXCEPT ![c] = NoSeen]
  /\ permits' = permits + 1
  /\ log' = [log EXCEPT ![c] = Append(@, "release")]
  /\ pc' = [pc EXCEPT ![c] = "cancelled"]
  /\ UNCHANGED <<result, connErr, innerArg, ret>>

\* connect resolved with the port of process pid: with_acquired drops the
\* permit, and the and_then closure builds the client request and hands it
\* to the local executor.
ConnectSucceeds(c, pid, port) ==
  IF c \in cancelled
  THEN ConnectAbandoned(c)
  ELSE
  /\ ret' = [ret EXCEPT ![c] = [port |-> port, pid |-> pid]]
  /\ seen' = [seen EXCEPT ![c] = NoSeen]
  /\ permits' = permits + 1
  /\ LET parsed == parse_command_lines(req[c].argv)
     IN innerArg' = [innerArg EXCEPT ![c] =
          construct_nailgun_client_request(
            req[c], PythonDistribution, parsed.client_main_class,
            parsed.client_args, port)]
  /\ log' = [log EXCEPT ![c] = (@ \o <<"release", "client_build", "inner">>)]
  /\ pc' = [pc EXCEPT ![c] = "inner_client"]
  /\ UNCHANGED <<result, connErr>>

\* The resolution as it would be if a failed connect kept the permit.
ConnectFails_leak(c, e) ==
  /\ connErr' = [connErr EXCEPT ![c] = e]
  /\ seen' = [seen EXCEPT ![c] = NoSeen]
  /\ permits' = permits
  /\ result' = [result EXCEPT ![c] = Err(map_connect_err(e))]
  /\ log' = [log EXCEPT ![c] = Append(@, "release")]
  /\ pc' = [pc EXCEPT ![c] = "done"]
  /\ UNCHANGED <<innerArg, ret>>

\* connect resolved with an error: with_acquired drops the permit and run()
\* returns the error behind the prefix.
ConnectFails(c, e) ==
  IF c \in cancelled
  THEN ConnectAbandoned(c)
  ELSE
  /\ connErr' = [connErr EXCEPT ![c] = e]
  /\ seen' = [seen EXCEPT ![c] = NoSeen]
  /\ permits' = permits + 1
  /\ result' = [result EXCEPT ![c] = Err(map_connect_err(e))]
  /\ log' = [log EXCEPT ![c] = Append(@, "release")]
  /\ pc' = [pc EXCEPT ![c] = "done"]
  /\ UNCHANGED <<innerArg, ret>>

\* The local executor answers; run() returns the answer as it is.
InnerResolve(c) ==
  /\ pc[c] \in {"inner_passthrough", "inner_client"}
  /\ \E out \in InnerResults :
       /\ innerOut' = [innerOut EXCEPT ![c] = out]
       /\ result' = [result EXCEPT ![c] = out]
  /\ pc' = [pc EXCEPT ![c] = "done"]
  /\ UNCHANGED <<req, log, ng_name, fingerprint, innerArg, seen, ret,
                 connErr, newPid, spawnedBy, terminatedBy, termKind,
                 permits, pool, procs, nextPid, workdirs>>
  /\ UNCHANGED <<cancelled, tvars>>

\* ----------------------------------------------------- NailgunPool::connect

\* The fast path's test as it would be without the liveness probe.
CanReuse_no_probe(name, fp) ==
  /\ pool[name].pid # 0
  /\ pool[name].fingerprint = fp

\* The fast path's test: an entry exists under the name, its fingerprint is
\* the requested one and its process is confirmed alive.
CanReuse(name, fp) ==
  /\ pool[name].pid # 0
  /\ pool[name].fingerprint = fp
  /\ procs[pool[name].pid].state = "ready"

\* Steps 1 and 2 of connect: look the name up; return the entry's port on
\* the fast path, or go on to start a server.
ConnectLookup(c) ==
  /\ pc[c] = "connect_lookup"
  /\ LET e == pool[ng_name[c]]
     IN IF CanReuse(ng_name[c], fingerprint[c])
        THEN ConnectSucceeds(c, e.pid, e.port)
        ELSE /\ seen' = [seen EXCEPT ![c] =
                  [pid |-> e.pid,
                   alive |-> e.pid # 0 /\ Alive(e.pid),
                   match |-> e.pid # 0 /\ e.fingerprint = fingerprint[c]]]
             /\ pc' = [pc EXCEPT ![c] = "materialize"]
             /\ UNCHANGED <<log, result, innerArg, ret, connErr, permits>>
  /\ UNCHANGED <<req, ng_name, fingerprint, innerOut, newPid, spawnedBy,
                 terminatedBy, termKind, pool, procs, nextPid, workdirs>>
  /\ UNCHANGED <<cancelled, tvars>>

MATERIALIZE_ERROR == <<"Failed to materialize the input files.">>
SPAWN_ERROR == <<"Failed to spawn the nailgun server.">>
STARTUP_TIMEOUT_ERROR == <<"Timed out waiting for the nailgun server to start.">>

\* Step 3, first part: the required inputs are materialized into the workdir
\* by the content store, which can fail; nothing was terminated or spawned.
Materialize(c) ==
  /\ pc[c] = "materialize"
  /\ \/ /\ pc' = [pc EXCEPT ![c] = "terminate_old"]
        /\ UNCHANGED <<log, result, innerArg, seen, ret, connErr, permits>>
     \/ ConnectFails(c, MATERIALIZE_ERROR)
  /\ UNCHANGED <<req, ng_name, fingerprint, innerOut, newPid, spawnedBy,
                 terminatedBy, termKind, pool, procs, nextPid, workdirs>>
  /\ UNCHANGED <<cancelled, tvars>>

\* Step 3, second part: an old entry under the name has its process
\* terminated and is removed before anything is spawned.
TerminateOld(c) ==
  /\ pc[c] = "terminate_old"
  /\ LET old == pool[ng_name[c]]
     IN IF old.pid # 0
        THEN /\ procs' = [procs EXCEPT ![old.pid].state = "dead"]
             /\ pool' = [pool EXCEPT ![ng_name[c]] = NoEntry]
             /\ terminatedBy' = [terminatedBy EXCEPT ![c] = Append(@, old.pid)]
             /\ termKind' = [termKind EXCEPT ![old.pid] =
                  IF seen[c].alive
                  THEN (IF seen[c].match THEN "other" ELSE "stale")
                  ELSE (IF seen[c].match THEN "dead" ELSE "dead_stale")]
        ELSE UNCHANGED <<procs, pool, terminatedBy, termKind>>
  /\ pc' = [pc EXCEPT ![c] = "spawn"]
  /\ UNCHANGED <<req, log, result, ng_name, fingerprint, innerArg, innerOut,
                 seen, ret, connErr, newPid, spawnedBy, permits, nextPid,
                 workdirs>>
  /\ UNCHANGED <<cancelled, tvars>>

\* Step 3, third part: the server process is spawned by the process
\* executor, which can fail; then no entry is installed.
Spawn(c) ==
  /\ pc[c] = "spawn"
  /\ \/ /\ nextPid \in Pids
        /\ procs' = [procs EXCEPT ![nextPid] =
                       [state |-> "starting", name |-> ng_name[c], port |-> 0]]
        /\ nextPid' = nextPid + 1
        /\ newPid' = [newPid EXCEPT ![c] = nextPid]
        /\ spawnedBy' = [spawnedBy EXCEPT ![c] = Append(@, nextPid)]
        /\ pc' = [pc EXCEPT ![c] = "await_ready"]
        /\ UNCHANGED <<log, result, innerArg, seen, ret, connErr, permits>>
     \/ /\ ConnectFails(c, SPAWN_ERROR)
        /\ UNCHANGED <<procs, nextPid, newPid, spawnedBy>>
  /\ UNCHANGED <<req, ng_name, fingerprint, innerOut, terminatedBy, termKind,
                 pool, workdirs>>
  /\ UNCHANGED <<cancelled, tvars>>

\* Step 3, last part: the pool has observed the port the server announced;
\* the entry is installed and the port returned.
ConnectInstall(c) ==
  /\ pc[c] = "await_ready"
  /\ procs[newPid[c]].state = "ready"
  /\ LET e == [fingerprint |-> fingerprint[c], pid |-> newPid[c],
               port |-> procs[newPid[c]].port]
     IN /\ pool' = [pool EXCEPT ![ng_name[c]] = e]
        /\ ConnectSucceeds(c, e.pid, e.port)
  /\ UNCHANGED <<req, ng_name, fingerprint, innerOut, newPid, spawnedBy,
                 terminatedBy, termKind, procs, nextPid, workdirs>>
  /\ UNCHANGED <<cancelled, tvars>>

\* Step 5: the server did not announce readiness within the startup timeout;
\* the half-started process is terminated and nothing is installed.
ConnectTimeout(c) ==
  /\ pc[c] = "await_ready"
  /\ procs[newPid[c]].state # "ready"
  /\ procs' = [procs EXCEPT ![newPid[c]].state = "dead"]
  /\ terminatedBy' = [terminatedBy EXCEPT ![c] = Append(@, newPid[c])]
  /\ termKind' = [termKind EXCEPT ![newPid[c]] = "timeout"]
  /\ ConnectFails(c, STARTUP_TIMEOUT_ERROR)
  /\ UNCHANGED <<req, ng_name, fingerprint, innerOut, newPid, spawnedBy,
                 pool, nextPid, workdirs>>
  /\ UNCHANGED <<cancelled, tvars>>

\* ------------------------------------------------------------- environment

\* The ports some server has bound so far.
UsedPorts == { procs[p].port : p \in Pids } \ {0}

\* The ports the operating system can give a server that binds ":0": any
\* port no live server holds.  Port numbers are interchangeable (run() and
\* the pool only compare and copy them), so of the ports never bound before
\* the lowest stands for all of them.
FreePorts ==
  LET fresh == Ports \ UsedPorts
  IN (UsedPorts \ BoundPorts)
       \cup { q \in fresh : \A r \in fresh : q <= r }

\* A starting server binds a free port and announces it.
ServerReady(p) ==
  /\ procs[p].state = "starting"
  /\ \E port \in FreePorts :
       procs' = [procs EXCEPT ![p].state = "ready", ![p].port = port]
  /\ UNCHANGED <<pc, req, log, result, ng_name, fingerprint, innerArg,
                 innerOut, seen, ret, connErr, newPid, spawnedBy,
                 terminatedBy, termKind, permits, pool, nextPid, workdirs>>
  /\ UNCHANGED <<cancelled, tvars>>

\* A server process crashes or is killed from outside.
ServerExit(p) ==
  /\ Alive(p)
  /\ procs' = [procs EXCEPT ![p].state = "dead"]
  /\ UNCHANGED <<pc, req, log, result, ng_name, fingerprint, innerArg,
                 innerOut, seen, ret, connErr, newPid, spawnedBy,
                 terminatedBy, termKind, permits, pool, nextPid, workdirs>>
  /\ UNCHANGED <<cancelled, tvars>>

\* ----------------------------------------------------------- specification

Next ==
  \/ \E c \in Calls, r \in Requests : Run(c, r)
  \/ \E c \in Calls : Acquire(c)
  \/ \E c \in Calls : ConnectLookup(c)
  \/ \E c \in Calls : Materialize(c)
  \/ \E c \in Calls : TerminateOld(c)
  \/ \E c \in Calls : Spawn(c)
  \/ \E c \in Calls : ConnectInstall(c)
  \/ \E c \in Calls : ConnectTimeout(c)
  \/ \E c \in Calls : InnerResolve(c)
  \/ \E p \in Pids : ServerReady(p)
  \/ \E p \in Pids : ServerExit(p)

Spec == Init /\ [][Next]_vars

\* ------------------------------------------- run() against an arbitrary pool

\* The errors nailgun_pool.connect can resolve with: the pool's own, and
\* the failure of an executor that ran the server-start step.
ConnectErrors ==
  {MATERIALIZE_ERROR, SPAWN_ERROR, STARTUP_TIMEOUT_ERROR, <<"executor failed">>}

\* nailgun_pool.connect as run() sees it: the future resolves with some port
\* or with some error.
\* The ports an arbitrary pool can return: any port.  run() only copies the
\* port into the client's environment, so of the ports no connect has
\* returned yet the lowest stands for all of them.
ReturnablePorts ==
  LET returned == { ret[d].port : d \in Calls } \ {0}
      fresh == Ports \ returned
  IN returned \cup { q \in fresh : \A r \in fresh : q <= r }

ConnectResolves(c) ==
  /\ pc[c] = "connect_lookup"
  /\ \/ \E port \in ReturnablePorts : ConnectSucceeds(c, 0, port)
     \/ \E e \in ConnectErrors : ConnectFails(c, e)
  /\ UNCHANGED <<req, ng_name, fingerprint, innerOut, newPid, spawnedBy,
                 terminatedBy, termKind, pool, procs, nextPid, workdirs>>
  /\ UNCHANGED <<cancelled, tvars>>

\* run() alone, for requests that also differ in the fields the server
\* request does not read, with the pool left open.
NextRun ==
  \/ \E c \in Calls, r \in Requests \cup VariedRequests : Run(c, r)
  \/ \E c \in Calls : Acquire(c)
  \/ \E c \in Calls : ConnectResolves(c)
  \/ \E c \in Calls : InnerResolve(c)

SpecRun == Init /\ [][NextRun]_vars

\* Two nailgunnable requests that reach the permit, one per logical name.
PermitRequests ==
  { MakeRequest(ArgvA, Some("/jdk8"), TRUE),
    MakeRequest(<<"-cp", "a.jar", "-Xmx512m", "Main2">>, Some("/jdk8"), TRUE) }

NextPermit ==
  \/ \E c \in Calls, r \in PermitRequests : Run(c, r)
  \/ \E c \in Calls : Acquire(c)
  \/ \E c \in Calls : ConnectResolves(c)
  \/ \E c \in Calls : InnerResolve(c)

\* run() when every connect eventually resolves and the semaphore hands a
\* permit that stays available to a call that waits for it.
FairSpecPermit ==
  /\ Init /\ [][NextPermit]_vars
  /\ \A c \in Calls : WF_vars(Acquire(c))
  /\ \A c \in Calls : WF_vars(ConnectResolves(c))

\* ------------------------------------------------------------- cancellation

\* The cancellation as it would be if dropping the caller dropped the connect
\* in progress with it: the permit comes back and the start is left where it
\* was.
Cancel_abort_start(c) ==
  /\ c \notin cancelled
  /\ pc[c] \in {"acquire"} \cup ConnectPcs
  /\ cancelled' = cancelled \cup {c}
  /\ pc' = [pc EXCEPT ![c] = "cancelled"]
  /\ permits' = IF c \in Connecting THEN permits + 1 ELSE permits
  /\ UNCHANGED <<req, log, result, ng_name, fingerprint, innerArg, innerOut,
                 seen, ret, connErr, newPid, spawnedBy, terminatedBy, termKind,
                 pool, procs, nextPid, workdirs>>
  /\ UNCHANGED tvars

\* The caller of run() is dropped while it waits for the permit or for
\* connect.  A caller waiting for the permit leaves the semaphore's queue
\* and holds nothing.  A connect in progress goes on with the permit it
\* holds; its outcome is abandoned when it resolves.
Cancel(c) ==
  /\ c \notin cancelled
  /\ pc[c] \in {"acquire"} \cup ConnectPcs
  /\ cancelled' = cancelled \cup {c}
  /\ pc' = [pc EXCEPT ![c] = IF pc[c] = "acquire" THEN "cancelled" ELSE @]
  /\ UNCHANGED <<req, log, result, ng_name, fingerprint, innerArg, innerOut,
                 seen, ret, connErr, newPid, spawnedBy, terminatedBy, termKind,
                 permits, pool, procs, nextPid, workdirs>>
  /\ UNCHANGED tvars

NextCancel ==
  \/ \E c \in Calls, r \in PermitRequests : Run(c, r)
  \/ \E c \in Calls : Acquire(c)
  \/ \E c \in Calls : Cancel(c)
  \/ \E c \in Calls : ConnectLookup(c)
  \/ \E c \in Calls : Materialize(c)
  \/ \E c \in Calls : TerminateOld(c)
  \/ \E c \in Calls : Spawn(c)
  \/ \E c \in Calls : ConnectInstall(c)
  \/ \E c \in Calls : ConnectTimeout(c)
  \/ \E c \in Calls : InnerResolve(c)
  \/ \E p \in Pids : ServerReady(p)
  \/ \E p \in Pids : ServerExit(p)

SpecCancel == Init /\ [][NextCancel]_vars

\* -------------------------------------------------------------------- Tasks

\* The values the registry's methods are called with.
Functions == {"f1", "f2"}
Products == {"P1", "P2"}
SubjectTypes == {"T1"}

\* The selectors (selectors.rs).
Select(product, variant_key) ==
  [kind |-> "Select", product |-> product, variant_key |-> variant_key]

SelectDependencies(product, dep_product, field, transitive) ==
  [kind |-> "SelectDependencies", product |-> product,
   dep_product |-> dep_product, field |-> field, transitive |-> transitive]

SelectProjection(product, projected_subject, field, input_product) ==
  [kind |-> "SelectProjection", product |-> product,
   projected_subject |-> projected_subject, field |-> field,
   input_product |-> input_product]

SelectLiteral(subject, product) ==
  [kind |-> "SelectLiteral", subject |-> subject, product |-> product]

\* Selector::select(product): a Select without variant key.
Selector_select(product) == Select(product, None)

\* Task { cacheable, product, clause, func }; two tasks are equal when all
\* four fields are.
Task(cacheable, product, clause, func) ==
  [cacheable |-> cacheable, product |-> product, clause |-> clause,
   func |-> func]

\* The panic messages (the source quotes end() and begin() with backquotes).
MUST_END ==
  <<"Must 'end()' the previous task creation before beginning a new one!">>
MUST_BEGIN_CLAUSE ==
  <<"Must 'begin()' a task creation before adding clauses!">>
MUST_BEGIN_END == <<"Must 'begin()' a task creation before ending it!">>
DoubleRegistered(task) ==
  <<task, " was double-registered for ", task.product>>

\* Vec::contains.
Contains(v, x) == \E i \in DOMAIN v : v[i] = x

\* HashMap::entry(k).or_insert_with(|| v): binds k to v unless k is bound.
OrInsert(m, k, v) ==
  IF k \in DOMAIN m THEN m
  ELSE [x \in (DOMAIN m) \cup {k} |-> IF x = k THEN v ELSE m[x]]

\* A method of the registry is called: a panic ends the calls.
Called(name) ==
  /\ failure = <<>>
  /\ Len(calls) < MaxCalls
  /\ calls' = Append(calls, name)

intrinsic_add(func, subject_type, subject_constraint, product) ==
  /\ Called("intrinsic_add")
  /\ intrinsics' =
       OrInsert(intrinsics, <<subject_type, product>>,
                <<Task(FALSE, product, <<Selector_select(subject_constraint)>>,
                       func)>>)
  /\ UNCHANGED <<preparing, tasks, singletons, failure>>
  /\ UNCHANGED nvars

singleton_add(func, product) ==
  /\ Called("singleton_add")
  /\ singletons' = OrInsert(singletons, product,
                            <<Task(FALSE, product, <<>>, func)>>)
  /\ UNCHANGED <<preparing, tasks, intrinsics, failure>>
  /\ UNCHANGED nvars

\* task_add as it would be without its assertion.
task_add_no_assert(func, product) ==
  /\ Called("task_add")
  /\ preparing' = Some(Task(TRUE, product, <<>>, func))
  /\ UNCHANGED <<tasks, intrinsics, singletons, failure>>
  /\ UNCHANGED nvars

task_add(func, product) ==
  /\ Called("task_add")
  /\ IF preparing # None
     THEN failure' = MUST_END /\ UNCHANGED preparing
     ELSE /\ preparing' = Some(Task(TRUE, product, <<>>, func))
          /\ UNCHANGED failure
  /\ UNCHANGED <<tasks, intrinsics, singletons>>
  /\ UNCHANGED nvars

\* clause: pushes the selector onto the clause of the task in preparation.
clause(selector) ==
  IF preparing = None
  THEN failure' = MUST_BEGIN_CLAUSE /\ UNCHANGED preparing
  ELSE /\ preparing' = Some([preparing[1] EXCEPT !.clause = Append(@, selector)])
       /\ UNCHANGED failure

add_select(product, variant_key) ==
  /\ Called("add_select")
  /\ clause(Select(product, variant_key))
  /\ UNCHANGED <<tasks, intrinsics, singletons>>
  /\ UNCHANGED nvars

add_select_dependencies(product, dep_product, field, transitive) ==
  /\ Called("add_select_dependencies")
  /\ clause(SelectDependencies(product, dep_product, field, transitive))
  /\ UNCHANGED <<tasks, intrinsics, singletons>>
  /\ UNCHANGED nvars

add_select_projection(product, projected_subject, field, input_product) ==
  /\ Called("add_select_projection")
  /\ clause(SelectProjection(product, projected_subject, field, input_product))
  /\ UNCHANGED <<tasks, intrinsics, singletons>>
  /\ UNCHANGED nvars

add_select_literal(subject, product) ==
  /\ Called("add_select_literal")
  /\ clause(SelectLiteral(subject, product))
  /\ UNCHANGED <<tasks, intrinsics, singletons>>
  /\ UNCHANGED nvars

\* task_end as it would be without the double-registration assertion.
task_end_no_assert ==
  /\ Called("task_end")
  /\ IF preparing = None
     THEN failure' = MUST_BEGIN_END /\ UNCHANGED <<preparing, tasks>>
     ELSE LET task == preparing[1]
              entry == OrInsert(tasks, task.product, <<>>)
          IN /\ preparing' = None
             /\ tasks' = [entry EXCEPT ![task.product] = Append(@, task)]
             /\ UNCHANGED failure
  /\ UNCHANGED <<intrinsics, singletons>>
  /\ UNCHANGED nvars

\* task_end: takes the task out of preparing, finds or creates the list of
\* its product, panics when the list contains an equal task, and pushes it
\* otherwise.  The task has left preparing when the assertion is evaluated.
task_end ==
  /\ Called("task_end")
  /\ IF preparing = None
     THEN failure' = MUST_BEGIN_END /\ UNCHANGED <<preparing, tasks>>
     ELSE LET task == preparing[1]
              entry == OrInsert(tasks, task.product, <<>>)
          IN /\ preparing' = None
             /\ IF Contains(entry[task.product], task)
                THEN failure' = DoubleRegistered(task) /\ tasks' = entry
                ELSE /\ tasks' = [entry EXCEPT ![task.product] = Append(@, task)]
                     /\ UNCHANGED failure
  /\ UNCHANGED <<intrinsics, singletons>>
  /\ UNCHANGED nvars

NextTasks ==
  \/ \E f \in Functions, t \in SubjectTypes, p \in {"P2"} :
       intrinsic_add(f, t, "P1", p)
  \/ \E f \in Functions : singleton_add(f, "P1")
  \/ \E f \in Functions, p \in Products : task_add(f, p)
  \/ \E k \in {None, Some("v")} : add_select("P1", k)
  \/ add_select_dependencies("P1", "P2", "dependencies", TRUE)
  \/ add_select_projection("P1", "T1", "name", "P2")
  \/ add_select_literal("key", "P2")
  \/ task_end

SpecTasks == Init /\ [][NextTasks]_vars

\* ----------------------------------------------------------------- claims

\* A call that has been issued and has not returned.
InFlight(c) == pc[c] \notin {"idle", "done"}

\* The steps of a nailgunnable run() after the jdk_home check.
LaterSteps == {"fingerprint", "workdir", "acquire", "connect", "release",
               "client_build", "inner"}

\* C1: a request that is not nailgunnable goes to the local executor as it
\* is, run() returns what the executor answers, and the call does nothing
\* else: no splitter, no workdir, no permit, no connect.
C1_PassThrough ==
  \A c \in Calls :
    (pc[c] # "idle" /\ ~req[c].is_nailgunnable) =>
      /\ pc[c] \in {"inner_passthrough", "done"}
      /\ log[c] = <<"inner">>
      /\ innerArg[c] = req[c]
      /\ ret[c] = NoRet /\ connErr[c] = <<>> /\ spawnedBy[c] = <<>>
      /\ (pc[c] = "done" => result[c] = innerOut[c])

\* A pass-through call has returned the executor's error, while the
\* workdirs and the permit are untouched.
C1_Witness ==
  \E c \in Calls :
    /\ pc[c] = "done" /\ ~req[c].is_nailgunnable
    /\ result[c] = Err(<<"executor failed">>)
    /\ workdirs = {} /\ permits = 1

\* C2: at most one connect is in progress at any instant, and the call
\* whose connect is in progress holds the only permit.
C2_OneConnectAtATime ==
  /\ Cardinality(Connecting) <= 1
  /\ \A c \in Connecting : permits = 0 /\ "acquire" \in Range(log[c])

\* One call is inside connect while a call for another logical name waits
\* for the permit.
C2_Witness ==
  \E c, d \in Calls :
    /\ c \in Connecting /\ pc[d] = "acquire"
    /\ ng_name[c] # ng_name[d]

\* C9 as stated: every nailgunnable request without jdk_home fails with the
\* configuration error.
C9_Original ==
  \A c \in Calls :
    (pc[c] # "idle" /\ req[c].is_nailgunnable /\ req[c].jdk_home = None) =>
      /\ pc[c] = "done"
      /\ result[c] = Err(JDK_HOME_ERROR)
      /\ Range(log[c]) \cap LaterSteps = {}
      /\ ret[c] = NoRet /\ connErr[c] = <<>> /\ spawnedBy[c] = <<>>

\* C9, amended: a nailgunnable request without jdk_home fails before any
\* later step (no workdir, no permit, no connect, no spawn, no client); the
\* error is the configuration error when the splitter accepts the argv and
\* the splitter's parse error when it does not.
C9_MissingJdk ==
  \A c \in Calls :
    (pc[c] # "idle" /\ req[c].is_nailgunnable /\ req[c].jdk_home = None) =>
      /\ pc[c] = "done"
      /\ result[c] =
           IF parse_command_lines(req[c].argv).ok
           THEN Err(JDK_HOME_ERROR)
           ELSE Err(parse_command_lines(req[c].argv).err)
      /\ Range(log[c]) \cap LaterSteps = {}
      /\ ret[c] = NoRet /\ connErr[c] = <<>> /\ spawnedBy[c] = <<>>
      /\ innerArg[c] = NoRequest

\* A request the splitter accepts, without jdk_home, has failed with the
\* configuration error and nothing was spawned or created.
C9_Witness ==
  \E c \in Calls :
    /\ pc[c] = "done" /\ req[c].is_nailgunnable /\ req[c].jdk_home = None
    /\ parse_command_lines(req[c].argv).ok
    /\ result[c] = Err(JDK_HOME_ERROR)
    /\ log[c] = <<"split", "jdk_check">>
    /\ workdirs = {} /\ nextPid = 1

\* C10: a nailgunnable request whose argv the splitter rejects returns the
\* parse error and performs no other step: the jdk_home check reports
\* nothing, no workdir, no permit, no connect, no local executor.
C10_ParseErrorShortCircuits ==
  \A c \in Calls :
    (pc[c] # "idle" /\ req[c].is_nailgunnable
       /\ ~parse_command_lines(req[c].argv).ok) =>
      /\ pc[c] = "done"
      /\ result[c] = Err(parse_command_lines(req[c].argv).err)
      /\ log[c] = <<"split">>
      /\ ret[c] = NoRet /\ connErr[c] = <<>> /\ spawnedBy[c] = <<>>
      /\ innerArg[c] = NoRequest

\* A rejected argv that also lacks jdk_home has returned the parse error.
C10_Witness ==
  \E c \in Calls :
    /\ pc[c] = "done" /\ req[c].is_nailgunnable
    /\ req[c].argv = BadArgv /\ req[c].jdk_home = None
    /\ result[c] = Err(<<"No classpath flag found.">>)
    /\ workdirs = {}

\* Calls c and d ask connect for the same logical name with the same
\* fingerprint.
SameServer(c, d) ==
  /\ fingerprint[c] # NoDigest /\ fingerprint[d] # NoDigest
  /\ ng_name[c] = ng_name[d]
  /\ fingerprint[c] = fingerprint[d]

\* The server processes of logical name n that have not exited.
LiveServers(n) == { p \in Pids : Alive(p) /\ procs[p].name = n }

\* No server of the name of c existed before calls c and d: every process
\* spawned under that name so far was spawned by one of the two.
OnlyTheirs(c, d) ==
  \A p \in Pids :
    (procs[p].state # "none" /\ procs[p].name = ng_name[c]) =>
      p \in Range(spawnedBy[c]) \cup Range(spawnedBy[d])

\* C3 as stated: two calls in flight together for the same name and
\* fingerprint, with no server under that name before them, spawn at most
\* one server process in total.
C3_Original ==
  \A c, d \in Calls :
    (c # d /\ InFlight(c) /\ InFlight(d) /\ SameServer(c, d)
       /\ OnlyTheirs(c, d)) =>
      Len(spawnedBy[c]) + Len(spawnedBy[d]) <= 1

\* C3, amended: for two calls in flight together for the same name and
\* fingerprint there is no double start: each call spawns at most once, at
\* most one server of that name is starting or alive at any instant, and
\* when both calls have spawned, the server spawned first has exited or been
\* terminated (failed start, time-out, crash) before the second was spawned.
C3_NoDoubleStart ==
  \A c, d \in Calls :
    (c # d /\ InFlight(c) /\ InFlight(d) /\ SameServer(c, d)) =>
      /\ Len(spawnedBy[c]) <= 1 /\ Len(spawnedBy[d]) <= 1
      /\ Cardinality(LiveServers(ng_name[c])) <= 1
      /\ (newPid[c] # 0 /\ newPid[d] # 0 /\ newPid[c] < newPid[d]) =>
           ~Alive(newPid[c])

\* Two calls in flight together for the same name and fingerprint, no server
\* before them: the first spawned the server, the second reused it.
C3_Witness ==
  \E c, d \in Calls :
    /\ c # d /\ pc[c] = "inner_client" /\ pc[d] = "inner_client"
    /\ SameServer(c, d) /\ OnlyTheirs(c, d)
    /\ Len(spawnedBy[c]) = 1 /\ spawnedBy[d] = <<>>
    /\ ret[c].port # 0 /\ ret[d] = ret[c]

\* C5: under each logical name at most one server process is starting or
\* alive, and when the name has an entry no process of that name other than
\* the entry's is alive: an old server is terminated before its successor is
\* spawned and installed.
C5_OneServerPerName ==
  \A n \in Names :
    /\ Cardinality(LiveServers(n)) <= 1
    /\ (pool[n].pid # 0) =>
         /\ procs[pool[n].pid].name = n
         /\ LiveServers(n) \subseteq {pool[n].pid}

\* A replacement has happened: the stale server was terminated, and the
\* entry of its name now holds a live successor.
C5_Witness ==
  \E n \in Names, p \in Replaced :
    /\ procs[p].name = n /\ procs[p].state = "dead"
    /\ pool[n].pid # 0 /\ pool[n].pid # p
    /\ Alive(pool[n].pid)

\* The steps of connect, as seen in one transition: the lookup, the return
\* of a port, the return of an error.
LookupStep(c) == pc[c] = "connect_lookup" /\ pc'[c] # "connect_lookup"
ConnectReturns(c) == pc[c] \in ConnectPcs /\ pc'[c] = "inner_client"
ConnectErrs(c) == pc[c] \in ConnectPcs /\ pc'[c] = "done"

\* The server-start request of a call that reached connect, and the one a
\* process was spawned from.
ServerConfig(c) == nailgun_req_of(req[c])
SpawnerOf(p) == CHOOSE c \in Calls : p \in Range(spawnedBy[c])
ConfigOfProc(p) == ServerConfig(SpawnerOf(p))

\* The connect of call d found a live server of another fingerprint under
\* its name.
StaleLive(d) == seen[d].pid # 0 /\ seen[d].alive /\ ~seen[d].match

C4_OriginalStep ==
  \A d \in Calls :
    /\ ((ConnectReturns(d) \/ ConnectErrs(d)) /\ StaleLive(d)) =>
         /\ terminatedBy'[d] = <<seen[d].pid>>
         /\ Len(spawnedBy'[d]) = 1
         /\ pool'[ng_name[d]].pid # 0
         /\ pool'[ng_name[d]].fingerprint = fingerprint[d]
    /\ ConnectReturns(d) =>
         \A p \in Replaced' : ret'[d].port # procs[p].port

\* C4 as stated: a connect that finds a live server of another fingerprint
\* terminates it exactly once, spawns exactly once and leaves the entry with
\* the new fingerprint, and no connect from then on returns the old port.
C4_Original == [][C4_OriginalStep]_vars

C4_Step ==
  \A d \in Calls :
    LET n == ng_name[d]
        e == pool[n]
    IN /\ (LookupStep(d) /\ e.pid # 0 /\ Alive(e.pid)
             /\ ConfigOfProc(e.pid) # ServerConfig(d)) =>
            /\ pc'[d] = "materialize"
            /\ seen'[d] = [pid |-> e.pid, alive |-> TRUE, match |-> FALSE]
       /\ (ConnectReturns(d) /\ StaleLive(d)) =>
            /\ terminatedBy'[d] = <<seen[d].pid>>
            /\ Len(spawnedBy'[d]) = 1
            /\ ret'[d].pid = newPid[d]
            /\ pool'[n] = [fingerprint |-> fingerprint[d], pid |-> newPid[d],
                           port |-> ret'[d].port]
       /\ (ConnectErrs(d) /\ StaleLive(d)) =>
            /\ Len(spawnedBy'[d]) <= 1
            /\ pool'[n].pid \in {0, seen[d].pid}
       /\ ConnectReturns(d) =>
            /\ ret'[d].pid \notin Replaced'
            /\ Alive(ret'[d].pid)
            /\ ConfigOfProc(ret'[d].pid) = ServerConfig(d)

\* C4, amended: a connect that finds a live server of another server-start
\* configuration (another fingerprint) under its name does not reuse it.  If
\* the connect succeeds it has terminated the old process exactly once and
\* spawned exactly once, and the entry afterwards carries the new
\* fingerprint and the new process; if it fails it has spawned at most once
\* and installed nothing.  No connect from then on returns the port of the
\* terminated process as that process's: every port returned belongs to a
\* live process spawned from the caller's configuration (the number itself
\* can be bound again by a later server).
C4_Replacement == [][C4_Step]_vars

\* A replacement has succeeded: the call terminated the stale live server,
\* spawned once, and the entry holds its process and fingerprint.
C4_Witness ==
  \E d \in Calls :
    /\ ret[d].port # 0 /\ ret[d].pid = newPid[d]
    /\ Len(terminatedBy[d]) = 1 /\ terminatedBy[d][1] \in Replaced
    /\ Len(spawnedBy[d]) = 1
    /\ pool[ng_name[d]].pid = newPid[d]
    /\ pool[ng_name[d]].fingerprint = fingerprint[d]

C6_Step ==
  \A c \in Calls :
    LET n == ng_name[c]
        e == pool[n]
    IN /\ ConnectReturns(c) =>
            /\ procs[ret'[c].pid].state = "ready"
            /\ procs'[ret'[c].pid].state = "ready"
            /\ procs[ret'[c].pid].port = ret'[c].port
            /\ pool'[n].pid = ret'[c].pid
       /\ (LookupStep(c) /\ e.pid # 0 /\ e.fingerprint = fingerprint[c]
             /\ ~Alive(e.pid)) =>
            pc'[c] = "materialize"
       /\ (ConnectReturns(c) /\ seen[c].pid # 0 /\ ~seen[c].alive) =>
            /\ pc[c] = "await_ready"
            /\ ret'[c].pid = newPid[c]
            /\ newPid[c] # seen[c].pid

\* C6: the port connect returns is the port of a process that is alive and
\* has announced readiness at the instant of the return; an entry whose
\* fingerprint matches but whose process has exited is not reused: connect
\* goes on to start a new server and returns that one's port.
C6_NeverDeadPort == [][C6_Step]_vars

\* A connect found the matching entry's process dead, started a new server
\* and returned the new server's port.
C6_Witness ==
  \E c \in Calls :
    /\ ret[c].port # 0 /\ ret[c].pid = newPid[c]
    /\ Len(terminatedBy[c]) = 1
    /\ termKind[terminatedBy[c][1]] = "dead"

\* The process spawned last under logical name n (0: none).
LastSpawned(n) ==
  LET ps == { p \in Pids : procs[p].state # "none" /\ procs[p].name = n }
  IN IF ps = {} THEN 0 ELSE CHOOSE p \in ps : \A q \in ps : q <= p

C7_Step ==
  \A c \in Calls :
    LET n == ng_name[c]
    IN /\ (pc[c] = "await_ready" /\ pc'[c] = "done") =>
            /\ procs[newPid[c]].state # "ready"
            /\ connErr'[c] = STARTUP_TIMEOUT_ERROR
            /\ result'[c] = Err(<<CONNECT_ERROR_PREFIX>> \o STARTUP_TIMEOUT_ERROR)
            /\ procs'[newPid[c]].state = "dead"
            /\ pool'[n] = NoEntry
            /\ permits' = permits + 1
       /\ (LookupStep(c) /\ LastSpawned(n) # 0
             /\ termKind[LastSpawned(n)] = "timeout") =>
            /\ pool[n] = NoEntry
            /\ pc'[c] = "materialize"

\* C7: a connect whose server has not announced readiness when the startup
\* timeout expires fails with the startup-timeout error (run() returns it
\* behind its prefix), the half-started process is terminated and the name
\* has no entry; the next connect for the name finds no entry and starts a
\* server itself.
C7_StartupTimeout == [][C7_Step]_vars

\* After a connect timed out, a later connect for the same name spawned a
\* server and succeeded.
C7_Witness ==
  \E c, d \in Calls :
    /\ connErr[c] = STARTUP_TIMEOUT_ERROR
    /\ ng_name[d] = ng_name[c]
    /\ newPid[d] > newPid[c]
    /\ ret[d].port # 0 /\ ret[d].pid = newPid[d]

\* The connect of call c has resolved.
ConnectDone(c) ==
  /\ "connect" \in Range(log[c])
  /\ pc[c] \in {"inner_client", "done"}

C8_OriginalStep ==
  \A c, d \in Calls :
    (c # d /\ LookupStep(d) /\ ConnectDone(c)
       /\ ng_name[c] = ng_name[d]
       /\ ServerConfig(c) = ServerConfig(d)) =>
      /\ pc'[d] = "inner_client"
      /\ spawnedBy'[d] = <<>>
      /\ ret'[d].port = ret[c].port

\* C8 as stated: when the connect of a request follows the connect of a
\* request with the same name and fingerprint, it spawns nothing and
\* returns the port the first returned.
C8_Original == [][C8_OriginalStep]_vars

C8_Step ==
  \A c, d \in Calls :
    (c # d /\ LookupStep(d) /\ ConnectDone(c)
       /\ ng_name[c] = ng_name[d]
       /\ ServerConfig(c) = ServerConfig(d)
       /\ ret[c].port # 0
       /\ pool[ng_name[d]].pid = ret[c].pid
       /\ Alive(ret[c].pid)) =>
      /\ pc'[d] = "inner_client"
      /\ spawnedBy'[d] = <<>>
      /\ nextPid' = nextPid
      /\ ret'[d] = ret[c]

\* C8, amended: when the connect of a request follows the connect of a
\* request with the same name and the same server-start request (hence the
\* same fingerprint), and the first connect succeeded and the server it
\* returned is still the name's entry and alive, the second connect spawns
\* nothing and returns the same port as the first.
C8_SequentialReuse == [][C8_Step]_vars

\* Two finished calls whose requests differ in the client's arguments only:
\* the first spawned the server, the second got the same port and spawned
\* nothing.
C8_Witness ==
  \E c, d \in Calls :
    /\ c # d /\ pc[c] = "done" /\ pc[d] = "done"
    /\ req[c] # req[d]
    /\ ret[c].port # 0 /\ ret[d] = ret[c]
    /\ ret[c].pid = newPid[c] /\ spawnedBy[d] = <<>>

\* C11: the permit is back as soon as connect has resolved, with a port or
\* with an error, so it is held by calls inside connect only: a call whose
\* client request is with the local executor holds none, and neither does a
\* call that has returned; the release is the step right after connect.
C11_PermitReleasedAtResolve ==
  /\ permits + Cardinality(Connecting) = SemaphorePermits
  /\ \A c \in Calls :
       ("connect" \in Range(log[c]) /\ c \notin Connecting) =>
         /\ "release" \in Range(log[c])
         /\ \A i \in DOMAIN log[c] :
              log[c][i] = "connect" => log[c][i + 1] = "release"

\* The client of one call is with the local executor while the connect of
\* another call is in progress and holds the permit.
C11_Witness ==
  \E c, d \in Calls :
    /\ c # d /\ pc[c] = "inner_client" /\ d \in Connecting
    /\ permits = 0

\* A call whose connect has returned a port, so that its client request has
\* been built.
ClientBuilt(c) == pc[c] \in {"inner_client", "done"} /\ ret[c].port # 0

\* The fields of a request that the client request may change.
ClientChanges == {"argv", "env", "jdk_home"}

\* C12: the client request built from an original request has the original's
\* input files, output files, output directories, timeout, description and
\* target platform; argv, env and jdk_home are the only fields in which it
\* can differ from the original.
C12_ClientFrame ==
  \A c \in Calls :
    ClientBuilt(c) =>
      /\ DOMAIN innerArg[c] = DOMAIN req[c]
      /\ \A f \in {"input_files", "output_files", "output_directories",
                    "timeout", "description", "target_platform"} :
           innerArg[c][f] = req[c][f]
      /\ \A f \in DOMAIN req[c] \ ClientChanges : innerArg[c][f] = req[c][f]

\* A client request has been built from a request whose frame is not the
\* server request's: it kept the frame and differs in argv, env and jdk_home.
C12_Witness ==
  \E c \in Calls :
    /\ ClientBuilt(c)
    /\ req[c].timeout = 5 /\ innerArg[c].timeout = 5
    /\ innerArg[c].input_files = "digest_in2"
    /\ innerArg[c].output_directories = {"classes"}
    /\ \A f \in ClientChanges : innerArg[c][f] # req[c][f]

\* The server request run() built for call c (the fingerprint is the pair
\* of the request and the metadata).
ServerRequestOf(c) == fingerprint[c][1]

\* C13: for a request split into (nailgun_args, client_args, main_class),
\* the server request's argv is nailgun_args, then the nailgun server's
\* main class, then ":0"; the client request's argv is the distribution
\* path, "bin/ng/1.0.0/ng", "--", the main class, then client_args; the
\* client env is the original env with NAILGUN_PORT bound to the port
\* connect returned, in place of a binding the original had; the client has
\* no jdk_home.
C13_ArgvEnv ==
  \A c \in Calls :
    LET parsed == parse_command_lines(req[c].argv)
    IN /\ fingerprint[c] # NoDigest =>
            ServerRequestOf(c).argv =
              parsed.nailgun_args
                \o <<"com.martiansoftware.nailgun.NGServer", ":0">>
       /\ ClientBuilt(c) =>
            /\ innerArg[c].argv =
                 <<PythonDistribution, "bin/ng/1.0.0/ng", "--",
                   parsed.client_main_class>> \o parsed.client_args
            /\ DOMAIN innerArg[c].env = DOMAIN req[c].env \cup {"NAILGUN_PORT"}
            /\ innerArg[c].env["NAILGUN_PORT"] = ToString(ret[c].port)
            /\ \A k \in DOMAIN req[c].env \ {"NAILGUN_PORT"} :
                 innerArg[c].env[k] = req[c].env[k]
            /\ innerArg[c].jdk_home = None

\* A client request has been built from a request whose env already bound
\* NAILGUN_PORT to another value: the client env binds it to the returned
\* port and keeps the other variable.
C13_Witness ==
  \E c \in Calls :
    /\ ClientBuilt(c)
    /\ "NAILGUN_PORT" \in DOMAIN req[c].env
    /\ req[c].env["NAILGUN_PORT"] = "9"
    /\ innerArg[c].env["NAILGUN_PORT"] = ToString(ret[c].port)
    /\ innerArg[c].env["LANG"] = "C"
    /\ Len(parse_command_lines(req[c].argv).client_args) > 0

\* What the name and the fingerprint may depend on.
ServerInputs(r) ==
  LET parsed == parse_command_lines(r.argv)
  IN <<parsed.client_main_class, parsed.nailgun_args, r.jdk_home,
       r.target_platform, Metadata>>

\* C16: two nailgunnable requests that agree on main class, nailgun_args,
\* jdk_home, target platform and runner metadata get the same name and the
\* same fingerprint, whatever their client args, env, input files, outputs,
\* timeout and description; and two requests with the same main class get
\* the same name.
C16_Deterministic ==
  \A c \in Calls : \A d \in { e \in Calls : e > c } :
    /\ (fingerprint[c] # NoDigest /\ fingerprint[d] # NoDigest
          /\ ServerInputs(req[c]) = ServerInputs(req[d])) =>
         /\ ng_name[c] = ng_name[d]
         /\ fingerprint[c] = fingerprint[d]
    /\ (ng_name[c] # NoName /\ ng_name[d] # NoName
          /\ MainClassOf(req[c]) = MainClassOf(req[d])) =>
         ng_name[c] = ng_name[d]

\* Two calls got the same name and the same fingerprint for requests that
\* differ in env, input files, outputs, timeout and description.
C16_Witness ==
  \E c, d \in Calls :
    /\ fingerprint[c] # NoDigest /\ fingerprint[c] = fingerprint[d]
    /\ req[c].env # req[d].env /\ req[c].timeout # req[d].timeout
    /\ req[c].input_files # req[d].input_files
    /\ req[c].description # req[d].description
    /\ req[c].output_files # req[d].output_files

\* C14 as stated: an error the executor produced, in the client step or in
\* the server-start step inside connect, is the error run() returns.
C14_Original ==
  \A c \in Calls :
    pc[c] = "done" =>
      /\ (innerOut[c] # NoResult) => result[c] = innerOut[c]
      /\ (connErr[c] = <<"executor failed">>) => result[c] = Err(connErr[c])

\* The steps of a nailgunnable run(), in the order of the code.
StepOrder == <<"split", "jdk_check", "fingerprint", "workdir", "acquire",
               "connect", "release", "client_build", "inner">>

\* s is an initial part of t.
IsPrefix(s, t) == Len(s) <= Len(t) /\ s = SubSeq(t, 1, Len(s))

\* C18: the steps of a nailgunnable run() are an initial part of: split,
\* jdk_home check, fingerprint, workdir, permit acquire, connect, permit
\* release, client build, client execution.  A step that fails is the last
\* one (after a failed connect only the release follows), so the client is
\* executed at most once, only after connect returned a port, and with
\* that port in its environment.
C18_StepOrder ==
  \A c \in Calls :
    (pc[c] # "idle" /\ req[c].is_nailgunnable) =>
      /\ IsPrefix(log[c], StepOrder)
      /\ (pc[c] = "done" /\ ~result[c].ok /\ innerOut[c] = NoResult) =>
           /\ innerArg[c] = NoRequest
           /\ \/ log[c] = SubSeq(StepOrder, 1, 1)
                   /\ ~parse_command_lines(req[c].argv).ok
              \/ log[c] = SubSeq(StepOrder, 1, 2)
                   /\ result[c] = Err(JDK_HOME_ERROR)
              \/ log[c] = SubSeq(StepOrder, 1, 4)
                   /\ result[c] = Err(WORKDIR_ERROR)
              \/ log[c] = SubSeq(StepOrder, 1, 7)
                   /\ connErr[c] # <<>> /\ ret[c] = NoRet
      /\ ("inner" \in Range(log[c])) =>
           /\ connErr[c] = <<>> /\ ret[c].port # 0
           /\ innerArg[c].env[NAILGUN_PORT_ENV_VAR_FOR_CLIENT]
                = ToString(ret[c].port)
      /\ (innerOut[c] # NoResult) => "inner" \in Range(log[c])

\* One call ran all nine steps and its client succeeded, while another
\* call stopped at the workdir, which could not be created.
C18_Witness ==
  \E c, d \in Calls :
    /\ pc[c] = "done" /\ log[c] = StepOrder /\ result[c].ok
    /\ pc[d] = "done" /\ result[d] = Err(WORKDIR_ERROR)

\* C20: when every connect resolves, a call that waits for the permit gets
\* it and calls connect, and whenever no call is in flight the permit is
\* available.
C20_PermitLiveness ==
  /\ \A c \in Calls : (pc[c] = "acquire") ~> (pc[c] = "connect_lookup")
  /\ []((\A c \in Calls : ~InFlight(c)) => permits = SemaphorePermits)

\* A call is inside connect with the permit that another call's failed
\* connect gave back.
C20_Witness ==
  \E c, d \in Calls :
    /\ c # d /\ pc[c] = "done" /\ connErr[c] # <<>>
    /\ pc[d] = "connect_lookup" /\ permits = 0

\* The methods that add a selector to the task in preparation, and the kind
\* of selector each of them adds.
AddMethods ==
  {"add_select", "add_select_dependencies", "add_select_projection",
   "add_select_literal"}

SelectorKind(name) ==
  CASE name = "add_select" -> "Select"
    [] name = "add_select_dependencies" -> "SelectDependencies"
    [] name = "add_select_projection" -> "SelectProjection"
    [] name = "add_select_literal" -> "SelectLiteral"

\* The calls that returned: all of them, or all but the last when it panicked.
Returned ==
  IF failure = <<>> THEN calls ELSE SubSeq(calls, 1, Len(calls) - 1)

\* A task is open before the i-th call of s: a task_add precedes it with no
\* task_end in between.
Open(s, i) ==
  \E j \in 1..(i - 1) :
    /\ j \in DOMAIN s
    /\ s[j] = "task_add"
    /\ \A k \in (j + 1)..(i - 1) : s[k] # "task_end"

\* s has the shape (task_add, add_*, task_end) repeated, up to a last
\* repetition still in progress, with intrinsic_add and singleton_add anywhere.
Lifecycle(s) ==
  \A i \in DOMAIN s :
    /\ s[i] = "task_add" => ~Open(s, i)
    /\ s[i] \in AddMethods \cup {"task_end"} => Open(s, i)

\* The step is a call of the method called name.
IsCall(name) == calls' = Append(calls, name)

\* C17: the calls that returned have the shape (task_add, zero or more
\* add_*, task_end) repeated; while no call has panicked, preparing holds a
\* task exactly when a task_add has not met its task_end; a task_add panics
\* exactly when a task is in preparation, an add_* exactly when none is, and
\* a task_end when none is; intrinsic_add and singleton_add leave preparing
\* as it is and never panic.
C17_Lifecycle ==
  /\ [](/\ Lifecycle(Returned)
        /\ failure = <<>> => ((preparing # None) <=> Open(calls, Len(calls) + 1))
        /\ failure # <<>> =>
             LET last == calls[Len(calls)]
                 open == Open(Returned, Len(calls))
             IN \/ last = "task_add" /\ open /\ failure = MUST_END
                \/ last \in AddMethods /\ ~open /\ failure = MUST_BEGIN_CLAUSE
                \/ last = "task_end" /\ ~open /\ failure = MUST_BEGIN_END
                \/ last = "task_end" /\ open /\ failure \notin
                      {MUST_END, MUST_BEGIN_CLAUSE, MUST_BEGIN_END})
  /\ [][/\ IsCall("task_add") => (failure' = <<>> <=> preparing = None)
        /\ (\E m \in AddMethods : IsCall(m)) =>
             (failure' = <<>> <=> preparing # None)
        /\ IsCall("task_end") /\ preparing = None => failure' # <<>>
        /\ IsCall("intrinsic_add") \/ IsCall("singleton_add") =>
             preparing' = preparing /\ failure' = <<>>]_vars

\* A task has been registered and an intrinsic added, and another task is in
\* preparation with one selector in its clause; no call has panicked.
C17_Witness ==
  /\ failure = <<>>
  /\ preparing # None
  /\ Len(preparing[1].clause) = 1
  /\ \E i \in DOMAIN calls : calls[i] = "task_end"
  /\ \E i \in DOMAIN calls : calls[i] = "intrinsic_add"

\* No list of tasks holds two equal tasks.
NoDuplicates(m) ==
  \A p \in DOMAIN m :
    \A i, j \in DOMAIN m[p] : m[p][i] = m[p][j] => i = j

\* C19: the list registered for each product never holds two equal tasks;
\* an add_* that returns appends its selector to the end of the clause of the
\* task in preparation and changes nothing else of it; a task_end that returns
\* appends the task in preparation, as it is, to the end of the list of its
\* product, leaves the other lists alone and empties preparing; a task_end
\* whose task equals one of that list panics with the double-registered
\* message and leaves the lists as they were.
C19_NoDoubleRegistration ==
  /\ [](NoDuplicates(tasks))
  /\ [][/\ \A m \in AddMethods :
             IsCall(m) /\ failure' = <<>> =>
               /\ preparing' # None
               /\ Len(preparing'[1].clause) = Len(preparing[1].clause) + 1
               /\ SubSeq(preparing'[1].clause, 1, Len(preparing[1].clause))
                    = preparing[1].clause
               /\ preparing'[1].clause[Len(preparing'[1].clause)].kind
                    = SelectorKind(m)
               /\ [preparing'[1] EXCEPT !.clause = <<>>]
                    = [preparing[1] EXCEPT !.clause = <<>>]
               /\ tasks' = tasks
        /\ IsCall("task_end") /\ failure' = <<>> =>
             LET task == preparing[1]
                 old == IF task.product \in DOMAIN tasks
                        THEN tasks[task.product] ELSE <<>>
             IN /\ preparing' = None
                /\ ~Contains(old, task)
                /\ DOMAIN tasks' = (DOMAIN tasks) \cup {task.product}
                /\ tasks'[task.product] = Append(old, task)
                /\ \A p \in DOMAIN tasks : p # task.product => tasks'[p] = tasks[p]
        /\ IsCall("task_end") /\ preparing # None
             /\ preparing[1].product \in DOMAIN tasks
             /\ Contains(tasks[preparing[1].product], preparing[1]) =>
               /\ failure' = DoubleRegistered(preparing[1])
               /\ tasks' = tasks]_vars

\* Two tasks are registered for one product, the first with a selector in its
\* clause, and no call has panicked.
C19_Witness ==
  /\ failure = <<>>
  /\ \E p \in DOMAIN tasks :
       /\ Len(tasks[p]) = 2
       /\ Len(tasks[p][1].clause) = 1

\* A task_end has panicked on a task equal to a registered one.
C19_DoubleRegistered ==
  /\ preparing = None
  /\ \E p \in DOMAIN tasks :
       \E i \in DOMAIN tasks[p] : failure = DoubleRegistered(tasks[p][i])

\* The server processes that are starting or running and that nobody
\* answers for: no entry of the pool owns them and no connect awaits them.
Orphans ==
  { p \in Pids :
      /\ Alive(p)
      /\ \A n \in DOMAIN pool : pool[n].pid # p
      /\ \A c \in Calls : ~(pc[c] = "await_ready" /\ newPid[c] = p) }

\* C15: when the caller of run() is dropped while it waits for the permit
\* or for connect, the step changes no server process, no entry of the pool
\* and no other call, and a connect in progress stays where it is; every
\* permit taken is held by a connect in progress, so a permit exists
\* whenever no connect is in progress and a waiting call can take it; no
\* server that is starting or running is left without an entry or a connect
\* awaiting it; and the dropped caller gets no result and runs no client.
C15_Cancellation ==
  /\ [](/\ permits + Cardinality(Connecting) = SemaphorePermits
        /\ Connecting = {} => permits > 0
        /\ Orphans = {}
        /\ \A c \in cancelled :
             /\ result[c] = NoResult
             /\ innerArg[c] = NoRequest
             /\ pc[c] \in ConnectPcs \cup {"cancelled"})
  /\ [][cancelled' # cancelled =>
          /\ procs' = procs
          /\ pool' = pool
          /\ permits' = permits
          /\ \A c \in Calls :
               c \notin cancelled' \/ pc[c] \in ConnectPcs => pc'[c] = pc[c]]_vars

\* A caller was dropped while its connect was starting a server; the start
\* went on, the server was installed in the pool, the permit came back, and
\* another call then took the permit and was given that server.
C15_Witness ==
  \E c, d \in Calls :
    /\ c \in cancelled
    /\ pc[c] = "cancelled"
    /\ spawnedBy[c] # <<>>
    /\ pool[ng_name[c]].pid = spawnedBy[c][1]
    /\ d \notin cancelled
    /\ pc[d] = "inner_client"
    /\ ret[d].pid = spawnedBy[c][1]

====
